---------------------------- MODULE Spec2Model ----------------------------
(* A model of the Lazor solver (src/Main_Code_Block.py) and of the earlier   *)
(* drafts kept in src/unnamed/part_000: points, lasers, the three block      *)
(* kinds, the board, the laser simulation and the backtracking search.       *)
(*                                                                           *)
(* A Point is a pair <<x, y>>; a Laser is a record [origin, direction]; a    *)
(* Block is a record [kind, fixed] stored in board.grid under its position,  *)
(* kind being the letter of the .bff format: "A" ReflectBlock, "B"           *)
(* OpaqueBlock, "C" RefractBlock.                                            *)
EXTENDS Integers, Sequences, FiniteSets, TLC

(***************************************************************************)
(* Bounds of the model.                                                    *)
(***************************************************************************)
\* coordinates of the points handed to interact: 0..MaxCoord
MaxCoord == 3
\* direction components handed to interact: -MaxDir..MaxDir
MaxDir == 1
\* grids of parse_bff: at most MaxCells cells (columns * rows)
MaxCells == 4
\* a grid of the simulation holds at most MaxBlocks fixed blocks
MaxBlocks == 2
\* a grid handed to solver holds at most MaxFixed fixed blocks
MaxFixed == 1
\* solver has at most MaxPlace blocks to place
MaxPlace == 2
\* a file handed to solver holds at most MaxTargets P lines
MaxTargets == 2
\* dx and dy of an L line: -MaxRaw, 0 or MaxRaw
MaxRaw == 2
\* coordinates of the points added to each other: -MaxPt..MaxPt
MaxPt == 2
\* beams a simulation of the third draft walks before it is given up as
\* not coming to an end
MaxPops == 12

(***************************************************************************)
(* Point and Laser                                                         *)
(***************************************************************************)
Point(x, y) == <<x, y>>

\* an addition that pairs each coordinate with the other one
PointAddCrossed(p, q) == Point(p[1] + q[2], p[2] + q[1])

\* Point.__eq__
PointEq(p, q) == p[1] = q[1] /\ p[2] = q[2]

\* Point.__add__
PointAdd(p, q) == Point(p[1] + q[1], p[2] + q[2])

Laser(origin, direction) == [origin |-> origin, direction |-> direction]

(***************************************************************************)
(* Block.interact: the result of a call is the list it returns, or the     *)
(* ValueError it raises (raised = TRUE, and then no list is returned).     *)
(***************************************************************************)
Returned(lasers) == [raised |-> FALSE, out |-> lasers]

Raised == [raised |-> TRUE, out |-> <<>>]

\* a reflection that reverses both components whatever the side entered
ReflectBothAxes(block_pos, laser) ==
    IF laser.origin[1] = block_pos[1] /\ laser.origin[2] = block_pos[2]
    THEN Raised
    ELSE Returned(<<Laser(block_pos, Point(0 - laser.direction[1], 0 - laser.direction[2]))>>)

\* a reflection that guesses an axis when the side entered is not known
ReflectGuessAxis(block_pos, laser) ==
    IF laser.origin[1] = block_pos[1] /\ laser.origin[2] # block_pos[2]
    THEN Returned(<<Laser(block_pos, Point(laser.direction[1], 0 - laser.direction[2]))>>)
    ELSE Returned(<<Laser(block_pos, Point(0 - laser.direction[1], laser.direction[2]))>>)

\* a reflection that turns the beam by a quarter turn
ReflectQuarterTurn(block_pos, laser) ==
    IF laser.origin[1] = block_pos[1] /\ laser.origin[2] # block_pos[2]
    THEN Returned(<<Laser(block_pos, Point(0 - laser.direction[2], laser.direction[1]))>>)
    ELSE IF laser.origin[2] = block_pos[2] /\ laser.origin[1] # block_pos[1]
    THEN Returned(<<Laser(block_pos, Point(laser.direction[2], 0 - laser.direction[1]))>>)
    ELSE Raised

\* ReflectBlock.interact
ReflectInteract(block_pos, laser) ==
    LET prev_pos == laser.origin
        dx == laser.direction[1]
        dy == laser.direction[2]
    IN  IF prev_pos[1] = block_pos[1] /\ prev_pos[2] # block_pos[2]
        THEN Returned(<<Laser(block_pos, Point(dx, -dy))>>)
        ELSE IF prev_pos[2] = block_pos[2] /\ prev_pos[1] # block_pos[1]
        THEN Returned(<<Laser(block_pos, Point(-dx, dy))>>)
        ELSE Raised

\* an opaque block that lets the beam through
OpaquePassThrough(block_pos, laser) == Returned(<<Laser(block_pos, laser.direction)>>)

\* OpaqueBlock.interact
OpaqueInteract(block_pos, laser) == Returned(<<>>)

\* a refraction that returns the reflected beam first
RefractReflectedFirst(block_pos, laser) ==
    IF laser.origin[1] = block_pos[1] /\ laser.origin[2] # block_pos[2]
    THEN Returned(<<Laser(block_pos, Point(laser.direction[1], 0 - laser.direction[2])),
                    Laser(block_pos, laser.direction)>>)
    ELSE IF laser.origin[2] = block_pos[2] /\ laser.origin[1] # block_pos[1]
    THEN Returned(<<Laser(block_pos, Point(0 - laser.direction[1], laser.direction[2])),
                    Laser(block_pos, laser.direction)>>)
    ELSE Raised

\* RefractBlock.interact
RefractInteract(block_pos, laser) ==
    LET prev_pos == laser.origin
        dx == laser.direction[1]
        dy == laser.direction[2]
        transmitted == Laser(block_pos, Point(dx, dy))
    IN  IF prev_pos[1] = block_pos[1] /\ prev_pos[2] # block_pos[2]
        THEN Returned(<<transmitted, Laser(block_pos, Point(dx, -dy))>>)
        ELSE IF prev_pos[2] = block_pos[2] /\ prev_pos[1] # block_pos[1]
        THEN Returned(<<transmitted, Laser(block_pos, Point(-dx, dy))>>)
        ELSE Raised

\* block.interact(laser): dispatch on the class of the block
Interact(kind, block_pos, laser) ==
    CASE kind = "A" -> ReflectInteract(block_pos, laser)
      [] kind = "B" -> OpaqueInteract(block_pos, laser)
      [] kind = "C" -> RefractInteract(block_pos, laser)

Kinds == {"A", "B", "C"}

(***************************************************************************)
(* Board                                                                   *)
(***************************************************************************)
\* Board.is_valid_position
is_valid_position(w, h, pos) == 0 <= pos[1] /\ pos[1] < w /\ 0 <= pos[2] /\ pos[2] < h

\* the normalisation of one direction component in Board.add_laser
Norm(d) == IF d > 0 THEN 1 ELSE IF d < 0 THEN 0 - 1 ELSE 0

\* Board.add_laser: the list of sources after add_laser(x, y, dx, dy)
add_laser(ls, x, y, dx, dy) == Append(ls, Laser(Point(x, y), Point(Norm(dx), Norm(dy))))

\* Board.add_target: the set of targets after add_target(x, y)
add_target(ts, x, y) == ts \cup {Point(x, y)}

\* Board.add_block: the grid after add_block(block), or the ValueError of an
\* occupied position
add_block(g, pos, block) ==
    IF pos \in DOMAIN g
    THEN [raised |-> TRUE, grid |-> g]
    ELSE [raised |-> FALSE,
          grid |-> [p \in DOMAIN g \cup {pos} |-> IF p = pos THEN block ELSE g[p]]]

\* del board.grid[pos]
del_block(g, pos) == [p \in DOMAIN g \ {pos} |-> g[p]]

\* a constructor that marks every block as fixed
BlockAlwaysFixed(kind, fixed) == [kind |-> kind, fixed |-> TRUE]

Block(kind, fixed) == [kind |-> kind, fixed |-> fixed]

EmptyGrid == [p \in {} |-> Block("A", FALSE)]

(***************************************************************************)
(* parse_bff, from the parsed lines on: cells is the list of grid rows     *)
(* (each a list of "x", "o", "A", "B", "C"), avail the block counts,       *)
(* ls the list of <<x, y, dx, dy>> of the L lines, ts the list of <<x, y>> *)
(* of the P lines.                                                         *)
(***************************************************************************)
RECURSIVE AddLasers(_, _)
AddLasers(ls, raw) ==
    IF raw = <<>> THEN ls
    ELSE AddLasers(add_laser(ls, raw[1][1], raw[1][2], raw[1][3], raw[1][4]), Tail(raw))

RECURSIVE AddTargets(_, _)
AddTargets(ts, raw) ==
    IF raw = <<>> THEN ts
    ELSE AddTargets(add_target(ts, raw[1][1], raw[1][2]), Tail(raw))

\* a parse_bff that forgets to double the height of the board
parse_bff_single_height(cells, avail, ls, ts) ==
    LET gh == Len(cells)
        gw == IF gh > 0 THEN Len(cells[1]) ELSE 0
        \* the cells in the order of the two nested loops: row by row
        CellPos(k) == Point(2 * ((k - 1) % gw), 2 * ((k - 1) \div gw))
        CellAt(k) == cells[((k - 1) \div gw) + 1][((k - 1) % gw) + 1]
        order == [k \in 1..(gw * gh) |-> k]
        IsEmpty(k) == CellAt(k) = "o"
        fixedAt == {k \in 1..(gw * gh) : CellAt(k) \in {"A", "B", "C"}}
        KOf(p) == CHOOSE k \in fixedAt : CellPos(k) = p
        emptyKs == SelectSeq(order, IsEmpty)
    IN  [width |-> gw * 2,
         height |-> gh,
         grid |-> [p \in {CellPos(k) : k \in fixedAt} |-> Block(CellAt(KOf(p)), TRUE)],
         empty_positions |-> [i \in 1..Len(emptyKs) |-> CellPos(emptyKs[i])],
         available_blocks |-> avail,
         lasers |-> AddLasers(<<>>, ls),
         targets |-> AddTargets({}, ts)]

parse_bff(cells, avail, ls, ts) ==
    LET gh == Len(cells)
        gw == IF gh > 0 THEN Len(cells[1]) ELSE 0
        \* the cells in the order of the two nested loops: row by row
        CellPos(k) == Point(2 * ((k - 1) % gw), 2 * ((k - 1) \div gw))
        CellAt(k) == cells[((k - 1) \div gw) + 1][((k - 1) % gw) + 1]
        order == [k \in 1..(gw * gh) |-> k]
        IsEmpty(k) == CellAt(k) = "o"
        fixedAt == {k \in 1..(gw * gh) : CellAt(k) \in {"A", "B", "C"}}
        KOf(p) == CHOOSE k \in fixedAt : CellPos(k) = p
        emptyKs == SelectSeq(order, IsEmpty)
    IN  [width |-> gw * 2,
         height |-> gh * 2,
         grid |-> [p \in {CellPos(k) : k \in fixedAt} |-> Block(CellAt(KOf(p)), TRUE)],
         empty_positions |-> [i \in 1..Len(emptyKs) |-> CellPos(emptyKs[i])],
         available_blocks |-> avail,
         lasers |-> AddLasers(<<>>, ls),
         targets |-> AddTargets({}, ts)]

NoBlocks == [k \in {"A", "B", "C"} |-> 0]

(***************************************************************************)
(* State                                                                   *)
(***************************************************************************)
VARIABLES
    \* one call block.interact(laser) on a free-standing block
    ikind, ipos, ilaser, ires, ipc,
    \* the Board object
    width, height, grid, lasers, targets, available_blocks, empty_positions,
    \* the locals of Board.simulate_lasers and its position: "idle" (not
    \* called), "outer" (at `while active_lasers`), "inner" (at `while True`),
    \* "returned" (visited is the result), "raised" (interact raised)
    visited, visited_laser_origins, active_lasers, current, direction, simpc,
    \* the parity of the number of passes of `while True` made for the
    \* beam being walked (a pass that changes nothing is still a pass)
    passes,
    \* the locals of solver and of the calls of try_place in progress: stack
    \* holds one frame [index, i] per call, i counting the positions of
    \* board.empty_positions its for loop has reached; ret is the value the
    \* last call returned; spc is the position in solver; sresult its result
    blocks_placable, solution, stack, ret, spc, sresult,
    \* board.grid as it was when solver was called
    grid0,
    \* the locals of solve_lazor (drafts of src/unnamed/part_000): its
    \* empty_positions, blocks_to_place (by kind) and used_positions; expired
    \* is whether the clock has passed start_time + timeout, timed_out whether
    \* a call of backtrack has returned False on the timeout check
    lz_empty_positions, blocks_to_place, used_positions, expired, timed_out,
    \* three points p, q, r, the sums computed from them and whether they
    \* have been computed ("ready" or "done")
    pt_p, pt_q, pt_r, pt_out, ppc,
    \* a script around the program: bff_grid is the grid parse_bff returned
    \* with the board, written the rows save_solution wrote between GRID START
    \* and GRID STOP, prev_paths and prev_targets the result of an earlier
    \* call of simulate_lasers and the targets of the board it ran on, hpc
    \* the position in the script
    bff_grid, written, prev_paths, prev_targets, hpc,
    \* more locals of solve_lazor (third draft, src/unnamed/part_000):
    \* laser_paths, the paths simulated before the search, and placed, the
    \* dict of the positions the search holds; and the outcomes of is_solved
    \* with and without the early exit of the draft's simulate_lasers
    lz_laser_paths, lz_placed, early_result, plain_result

ivars == <<ikind, ipos, ilaser, ires, ipc>>

bvars == <<width, height, grid, lasers, targets, available_blocks, empty_positions>>

simvars == <<visited, visited_laser_origins, active_lasers, current, direction, simpc, passes>>

svars == <<blocks_placable, solution, stack, ret, spc, sresult, grid0>>

lvars == <<lz_empty_positions, blocks_to_place, used_positions, expired, timed_out>>

pvars == <<pt_p, pt_q, pt_r, pt_out, ppc>>

hvars == <<bff_grid, written, prev_paths, prev_targets, hpc>>

ovars == <<lz_laser_paths, lz_placed, early_result, plain_result>>

vars == <<ivars, pvars, hvars, ovars, bvars, simvars, svars, lvars>>

NoResult == [raised |-> FALSE, out |-> <<>>]

\* the parts of the state a specification does not use
IdleInteract ==
    /\ ikind = "B"
    /\ ipos = Point(0, 0)
    /\ ilaser = Laser(Point(0, 0), Point(0, 0))
    /\ ires = NoResult
    /\ ipc = "unused"

IdleBoard ==
    /\ width = 0
    /\ height = 0
    /\ grid = EmptyGrid
    /\ lasers = <<>>
    /\ targets = {}
    /\ available_blocks = NoBlocks
    /\ empty_positions = <<>>

IdleSim ==
    /\ visited = {}
    /\ visited_laser_origins = {}
    /\ active_lasers = <<>>
    /\ current = Point(0, 0)
    /\ direction = Point(0, 0)
    /\ simpc = "idle"
    /\ passes = 0

IdleSolver ==
    /\ blocks_placable = <<>>
    /\ solution = <<>>
    /\ stack = <<>>
    /\ ret = FALSE
    /\ spc = "idle"
    /\ sresult = "unset"
    /\ grid0 = EmptyGrid

IdleLazor ==
    /\ lz_empty_positions = <<>>
    /\ blocks_to_place = <<>>
    /\ used_positions = <<>>
    /\ expired = FALSE
    /\ timed_out = FALSE

NoSums == [pq |-> Point(0, 0), qp |-> Point(0, 0), pq_r |-> Point(0, 0), p_qr |-> Point(0, 0)]

IdlePoint ==
    /\ pt_p = Point(0, 0)
    /\ pt_q = Point(0, 0)
    /\ pt_r = Point(0, 0)
    /\ pt_out = NoSums
    /\ ppc = "unused"

IdleScript ==
    /\ bff_grid = <<>>
    /\ written = <<>>
    /\ prev_paths = {}
    /\ prev_targets = {}
    /\ hpc = "unused"

IdleOpt ==
    /\ lz_laser_paths = {}
    /\ lz_placed = EmptyGrid
    /\ early_result = "unset"
    /\ plain_result = "unset"

(***************************************************************************)
(* SpecInteract: a block of any kind at any position is handed any laser.  *)
(***************************************************************************)
Coords == 0..MaxCoord

DirVals == (0 - MaxDir)..MaxDir

InitInteract ==
    /\ ikind \in Kinds
    /\ ipos \in Coords \X Coords
    /\ ilaser \in [origin : Coords \X Coords, direction : DirVals \X DirVals]
    /\ ires = NoResult
    /\ ipc = "ready"
    /\ IdleBoard
    /\ IdleSim
    /\ IdleSolver
    /\ IdleLazor
    /\ IdlePoint
    /\ IdleOpt
    /\ IdleScript

\* result = block.interact(laser)
CallInteract ==
    /\ ipc = "ready"
    /\ ires' = Interact(ikind, ipos, ilaser)
    /\ ipc' = IF ires'.raised THEN "raised" ELSE "returned"
    /\ UNCHANGED <<ikind, ipos, ilaser, pvars, hvars, ovars, bvars, simvars, svars, lvars>>

NextInteract == CallInteract

SpecInteract == InitInteract /\ [][NextInteract]_vars

SharesXOnly == ilaser.origin[1] = ipos[1] /\ ilaser.origin[2] # ipos[2]

SharesYOnly == ilaser.origin[2] = ipos[2] /\ ilaser.origin[1] # ipos[1]

\* the call returned exactly one laser, located at the block, with direction d
OneLaserAtBlock(d) ==
    /\ ipc = "returned"
    /\ Len(ires.out) = 1
    /\ ires.out[1].origin = ipos
    /\ ires.out[1].direction = d

\* C1: a ReflectBlock at p handed a laser (dx, dy) whose origin shares p's x
\* and differs in y returns exactly one laser at p with direction (dx, -dy);
\* with an origin sharing p's y and differing in x, exactly one laser at p
\* with direction (-dx, dy); from directly above with (1, -1) the result is
\* (1, 1).
C1_ReflectFlipsEntryAxis ==
    (ipc # "ready" /\ ikind = "A") =>
        /\ SharesXOnly => OneLaserAtBlock(<<ilaser.direction[1], 0 - ilaser.direction[2]>>)
        /\ SharesYOnly => OneLaserAtBlock(<<0 - ilaser.direction[1], ilaser.direction[2]>>)
        /\ (/\ ilaser.origin[1] = ipos[1]
            /\ ilaser.origin[2] < ipos[2]
            /\ ilaser.direction = <<1, 0 - 1>>) => OneLaserAtBlock(<<1, 1>>)

\* a ReflectBlock was entered from directly above by a laser of direction (1, -1)
C1_Witness ==
    /\ ipc = "returned"
    /\ ikind = "A"
    /\ ilaser.origin = <<ipos[1], ipos[2] - 1>>
    /\ ilaser.direction = <<1, 0 - 1>>

\* C2: a RefractBlock at p handed a laser whose origin is adjacent to p on
\* exactly one axis returns exactly two lasers, both at p: first the
\* transmitted one with the incoming direction, second the reflected one, as
\* ReflectBlock.interact would return it.
C2_RefractTransmittedThenReflected ==
    (ipc # "ready" /\ ikind = "C" /\ (SharesXOnly \/ SharesYOnly)) =>
        /\ ipc = "returned"
        /\ Len(ires.out) = 2
        /\ ires.out[1] = [origin |-> ipos, direction |-> ilaser.direction]
        /\ ires.out[2].origin = ipos
        /\ ires.out[2].direction =
              IF SharesXOnly
              THEN <<ilaser.direction[1], 0 - ilaser.direction[2]>>
              ELSE <<0 - ilaser.direction[1], ilaser.direction[2]>>
        /\ <<ires.out[2]>> = Interact("A", ipos, ilaser).out

\* a RefractBlock was entered from its left by a diagonal laser
C2_Witness ==
    /\ ipc = "returned"
    /\ ikind = "C"
    /\ ilaser.origin = <<ipos[1] - 1, ipos[2]>>
    /\ ilaser.direction = <<1, 1>>

\* C3: OpaqueBlock.interact returns the empty list for every incoming laser,
\* whatever its origin and direction.
C3_OpaqueReturnsNothing ==
    (ipc # "ready" /\ ikind = "B") => (ipc = "returned" /\ ires.out = <<>>)

\* an OpaqueBlock was handed a laser that a reflecting block would refuse
C3_Witness ==
    /\ ipc = "returned"
    /\ ikind = "B"
    /\ ilaser.origin # ipos
    /\ ~SharesXOnly
    /\ ~SharesYOnly

Out == {ires.out[i] : i \in 1..Len(ires.out)}

\* C14: ReflectBlock.interact handed a laser whose origin is the block's own
\* position and whose direction is (dx, dy) returns a list whose first laser
\* has direction (-dx, -dy); for the block at (2, 2) and the direction
\* (1, -1) that is (-1, 1).
C14_ReflectFromOwnPosition ==
    (ipc # "ready" /\ ikind = "A" /\ ilaser.origin = ipos) =>
        /\ ipc = "returned"
        /\ Len(ires.out) >= 1
        /\ ires.out[1].direction = <<0 - ilaser.direction[1], 0 - ilaser.direction[2]>>
        /\ (ipos = <<2, 2>> /\ ilaser.direction = <<1, 0 - 1>>) =>
              ires.out[1].direction = <<0 - 1, 1>>

\* C15: RefractBlock.interact handed a laser whose origin is the block's own
\* position p and whose direction is (dx, dy) returns exactly two lasers at
\* p, one with direction (dx, -dy) and one with direction (-dx, -dy); for
\* p = (3, 3) and the direction (1, -1) the test expects lasers at p with
\* the directions (1, 1) and (-1, -1).
C15_RefractFromOwnPosition ==
    (ipc # "ready" /\ ikind = "C" /\ ilaser.origin = ipos) =>
        /\ ipc = "returned"
        /\ Len(ires.out) = 2
        /\ Laser(ipos, <<ilaser.direction[1], 0 - ilaser.direction[2]>>) \in Out
        /\ Laser(ipos, <<0 - ilaser.direction[1], 0 - ilaser.direction[2]>>) \in Out
        /\ (ipos = <<3, 3>> /\ ilaser.direction = <<1, 0 - 1>>) =>
              /\ Laser(<<3, 3>>, <<1, 1>>) \in Out
              /\ Laser(<<3, 3>>, <<0 - 1, 0 - 1>>) \in Out

(***************************************************************************)
(* SpecPoint: three points are added to each other in both groupings and   *)
(* both orders.                                                            *)
(***************************************************************************)
PtCoords == (0 - MaxPt)..MaxPt

InitPoint ==
    /\ pt_p \in PtCoords \X PtCoords
    /\ pt_q \in PtCoords \X PtCoords
    /\ pt_r \in PtCoords \X PtCoords
    /\ pt_out = NoSums
    /\ ppc = "ready"
    /\ IdleInteract
    /\ IdleBoard
    /\ IdleSim
    /\ IdleSolver
    /\ IdleLazor
    /\ IdleScript
    /\ IdleOpt

\* p + q, q + p, (p + q) + r and p + (q + r)
AddPoints ==
    /\ ppc = "ready"
    /\ pt_out' = [pq |-> PointAdd(pt_p, pt_q),
                  qp |-> PointAdd(pt_q, pt_p),
                  pq_r |-> PointAdd(PointAdd(pt_p, pt_q), pt_r),
                  p_qr |-> PointAdd(pt_p, PointAdd(pt_q, pt_r))]
    /\ ppc' = "done"
    /\ UNCHANGED <<pt_p, pt_q, pt_r, ivars, hvars, ovars, bvars, simvars, svars, lvars>>

NextPoint == AddPoints

SpecPoint == InitPoint /\ [][NextPoint]_vars

\* C16: Point addition is component-wise, and for all points p, q, r of the
\* range (p + q) + r equals p + (q + r) and p + q equals q + p, equality being
\* equal x and equal y.
C16_AdditionLaws ==
    ppc = "done" =>
        /\ pt_out.pq[1] = pt_p[1] + pt_q[1]
        /\ pt_out.pq[2] = pt_p[2] + pt_q[2]
        /\ PointEq(pt_out.pq_r, pt_out.p_qr)
        /\ PointEq(pt_out.pq, pt_out.qp)

\* the sum of the test: Point(1, 1) + Point(2, 2) is Point(3, 3)
C16_Witness ==
    /\ ppc = "done"
    /\ pt_p = Point(1, 1)
    /\ pt_q = Point(2, 2)
    /\ PointEq(pt_out.pq, Point(3, 3))
    /\ pt_r # Point(0, 0)

(***************************************************************************)
(* Board.simulate_lasers                                                   *)
(***************************************************************************)
\* a simulate_lasers whose set of walked beams outlives the call
SimBeginKeepsLaserIds ==
    /\ visited' = {}
    /\ active_lasers' = lasers
    /\ current' = Point(0, 0)
    /\ direction' = Point(0, 0)
    /\ simpc' = "outer"
    /\ passes' = 0
    /\ UNCHANGED visited_laser_origins

\* the first three statements: the empty sets and the copy of the sources
SimBegin ==
    /\ visited' = {}
    /\ visited_laser_origins' = {}
    /\ active_lasers' = lasers
    /\ current' = Point(0, 0)
    /\ direction' = Point(0, 0)
    /\ simpc' = "outer"
    /\ passes' = 0

\* a laser_id that forgets the direction
LaserIdOriginOnly(origin, dir) == <<origin>>

\* laser_id of a beam about to be walked
LaserId(origin, dir) == <<origin, dir>>

\* a simulate_lasers that records the origin of every beam it starts to walk
SimPopRecordsOrigin ==
    /\ simpc = "outer"
    /\ active_lasers # <<>>
    /\ LET laser == active_lasers[Len(active_lasers)]
           laser_id == LaserId(laser.origin, laser.direction)
       IN  /\ active_lasers' = SubSeq(active_lasers, 1, Len(active_lasers) - 1)
           /\ IF laser_id \in visited_laser_origins
              THEN UNCHANGED <<visited, visited_laser_origins, current, direction, simpc>>
              ELSE /\ visited_laser_origins' = visited_laser_origins \cup {laser_id}
                   /\ visited' = visited \cup {laser.origin}
                   /\ current' = laser.origin
                   /\ direction' = laser.direction
                   /\ simpc' = "inner"
    /\ passes' = 0
    /\ UNCHANGED <<ivars, pvars, hvars, ovars, bvars, svars, lvars>>

\* a simulate_lasers whose working list is board.lasers itself, not a copy:
\* the pop takes the beam out of the board
SimPopFromBoardLasers ==
    /\ simpc = "outer"
    /\ active_lasers # <<>>
    /\ LET laser == active_lasers[Len(active_lasers)]
           laser_id == LaserId(laser.origin, laser.direction)
       IN  /\ active_lasers' = SubSeq(active_lasers, 1, Len(active_lasers) - 1)
           /\ lasers' = SubSeq(active_lasers, 1, Len(active_lasers) - 1)
           /\ IF laser_id \in visited_laser_origins
              THEN UNCHANGED <<visited_laser_origins, current, direction, simpc>>
              ELSE /\ visited_laser_origins' = visited_laser_origins \cup {laser_id}
                   /\ current' = laser.origin
                   /\ direction' = laser.direction
                   /\ simpc' = "inner"
    /\ passes' = 0
    /\ UNCHANGED <<width, height, grid, targets, available_blocks, empty_positions>>
    /\ UNCHANGED <<visited, ivars, pvars, hvars, ovars, svars, lvars>>

\* one pass of `while active_lasers` up to the inner loop: pop the last beam,
\* and skip it if its (origin, direction) was walked before
SimPop ==
    /\ simpc = "outer"
    /\ active_lasers # <<>>
    /\ LET laser == active_lasers[Len(active_lasers)]
           laser_id == LaserId(laser.origin, laser.direction)
       IN  /\ active_lasers' = SubSeq(active_lasers, 1, Len(active_lasers) - 1)
           /\ IF laser_id \in visited_laser_origins
              THEN UNCHANGED <<visited_laser_origins, current, direction, simpc>>
              ELSE /\ visited_laser_origins' = visited_laser_origins \cup {laser_id}
                   /\ current' = laser.origin
                   /\ direction' = laser.direction
                   /\ simpc' = "inner"
    /\ passes' = 0
    /\ UNCHANGED <<visited, ivars, pvars, hvars, ovars, bvars, svars, lvars>>

\* one pass of `while True`: step, leave the board, or record the point and
\* meet a block
SimStep ==
    /\ simpc = "inner"
    /\ LET previous == current
           cur == PointAdd(current, direction)
       IN  IF ~is_valid_position(width, height, cur)
           THEN /\ simpc' = "outer"
                /\ UNCHANGED <<visited, active_lasers, current>>
           ELSE /\ visited' = visited \cup {cur}
                /\ IF cur \in DOMAIN grid
                   THEN LET new_lasers == Interact(grid[cur].kind, cur, Laser(previous, direction))
                        IN  IF new_lasers.raised
                            THEN /\ simpc' = "raised"
                                 /\ UNCHANGED <<active_lasers, current>>
                            ELSE /\ active_lasers' = active_lasers \o new_lasers.out
                                 /\ simpc' = "outer"
                                 /\ UNCHANGED current
                   ELSE /\ current' = cur
                        /\ UNCHANGED <<active_lasers, simpc>>
    /\ passes' = 1 - passes
    /\ UNCHANGED <<visited_laser_origins, direction, ivars, pvars, hvars, ovars, bvars, svars, lvars>>

\* `return visited`, once no beam is left
SimReturn ==
    /\ simpc = "outer"
    /\ active_lasers = <<>>
    /\ simpc' = "returned"
    /\ UNCHANGED <<visited, visited_laser_origins, active_lasers, current, direction, passes, ivars, pvars, hvars, ovars, bvars, svars, lvars>>

(***************************************************************************)
(* SpecSim: simulate_lasers is called once on a board built by parse_bff   *)
(* from a grid of at most MaxCells cells holding at most MaxBlocks blocks, *)
(* with one source anywhere on the lattice.                                *)
(***************************************************************************)
\* <<columns, rows>> of the grids
Shapes == {s \in (1..MaxCells) \X (1..MaxCells) : s[1] * s[2] <= MaxCells}

CellGrids(vals, s) == [1..s[2] -> [1..s[1] -> vals]]

NumCells(cells, vals) ==
    Cardinality({rc \in (1..Len(cells)) \X (1..Len(cells[1])) : cells[rc[1]][rc[2]] \in vals})

RawDirs == {0 - MaxRaw, 0, MaxRaw}

BoardIs(b) ==
    /\ width = b.width
    /\ height = b.height
    /\ grid = b.grid
    /\ lasers = b.lasers
    /\ targets = b.targets
    /\ available_blocks = b.available_blocks
    /\ empty_positions = b.empty_positions

InitSim ==
    /\ \E s \in Shapes :
         \E cells \in CellGrids({"x", "A", "B", "C"}, s) :
           \E x \in 0..(2 * s[1] - 1), y \in 0..(2 * s[2] - 1), dx \in RawDirs, dy \in RawDirs :
             /\ NumCells(cells, Kinds) <= MaxBlocks
             /\ BoardIs(parse_bff(cells, NoBlocks, <<<<x, y, dx, dy>>>>, <<>>))
    /\ IdleInteract
    /\ IdleSim
    /\ IdleSolver
    /\ IdleLazor
    /\ IdlePoint
    /\ IdleOpt
    /\ IdleScript

\* board.simulate_lasers() is called
SimCall ==
    /\ simpc = "idle"
    /\ SimBegin
    /\ UNCHANGED <<ivars, pvars, hvars, ovars, bvars, svars, lvars>>

NextSim == SimCall \/ SimPop \/ SimStep \/ SimReturn

SpecSim == InitSim /\ [][NextSim]_vars

\* the scheduling of a sequential program: a statement that can run, runs
FairSpecSim == SpecSim /\ WF_vars(NextSim)

(***************************************************************************)
(* What the beams of a board touch, stated without the work list: a beam   *)
(* touches the k-th point of its line when that point is on the board and  *)
(* every earlier point of the line is on the board and free of blocks.     *)
(***************************************************************************)
PointAt(beam, k) ==
    Point(beam.origin[1] + k * beam.direction[1], beam.origin[2] + k * beam.direction[2])

Touched(g, beam) ==
    {PointAt(beam, k) : k \in {n \in 1..(width + height) :
        /\ is_valid_position(width, height, PointAt(beam, n))
        /\ \A j \in 1..(n - 1) :
             /\ is_valid_position(width, height, PointAt(beam, j))
             /\ PointAt(beam, j) \notin DOMAIN g}}

\* the point at which a beam enters a block (none, or one)
Entered(g, beam) == Touched(g, beam) \cap DOMAIN g

\* the beams the block entered by a beam emits
Emitted(g, beam) ==
    UNION {{new.out[i] : i \in 1..Len(new.out)} :
           new \in {Interact(g[p].kind, p, Laser(PointAt(beam, 0 - 1 + CHOOSE n \in 1..(width + height) : PointAt(beam, n) = p), beam.direction)) :
                    p \in Entered(g, beam)}}

RECURSIVE Beams(_, _)
Beams(g, S) ==
    LET T == S \cup UNION {Emitted(g, b) : b \in S}
    IN  IF T = S THEN S ELSE Beams(g, T)

\* the sources and every beam transitively emitted by a block
AllBeams(g) == Beams(g, {lasers[i] : i \in 1..Len(lasers)})

Illuminated(g) == UNION {Touched(g, b) : b \in AllBeams(g)}

\* C5: when simulate_lasers returns, its result is exactly the set of
\* in-bounds points stepped onto by the sources and by every beam
\* transitively emitted by a block, the points at which a beam enters a block
\* included; skipping the beams already expanded drops no point.
C5_ResultIsIlluminated ==
    simpc = "returned" =>
        /\ visited = Illuminated(grid)
        /\ \A b \in AllBeams(grid) : Entered(grid, b) \subseteq visited

\* simulate_lasers returned on a board where two different beams emit the
\* same beam (its second expansion was skipped) and a block was entered
C5_Witness ==
    /\ simpc = "returned"
    /\ \E b1 \in AllBeams(grid), b2 \in AllBeams(grid) :
         /\ b1 # b2
         /\ Emitted(grid, b1) \cap Emitted(grid, b2) # {}

\* C13: after add_laser(x, y, dx, dy), for any integers dx and dy, every laser
\* of board.lasers has both direction components in {-1, 0, 1}, and the two
\* are never both 0.
C13_DirectionsAreUnitSteps ==
    \A i \in 1..Len(lasers) :
        /\ lasers[i].direction[1] \in {0 - 1, 0, 1}
        /\ lasers[i].direction[2] \in {0 - 1, 0, 1}
        /\ lasers[i].direction # Point(0, 0)

\* the invariants of the data model: blocks on in-bounds even coordinates,
\* sources whose direction components are in {-1, 0, 1} and not both zero
ValidDataModel ==
    /\ \A p \in DOMAIN grid :
          p[1] % 2 = 0 /\ p[2] % 2 = 0 /\ is_valid_position(width, height, p)
    /\ \A i \in 1..Len(lasers) :
          /\ lasers[i].direction \in {0 - 1, 0, 1} \X {0 - 1, 0, 1}
          /\ lasers[i].direction # Point(0, 0)

\* C19: on every board that satisfies the invariants of the data model,
\* simulate_lasers calls interact only with a pre-step position that shares
\* exactly one coordinate with the block, so no interact raises the
\* invalid-geometry error, from whichever side or diagonal the beam arrives.
C19_EntryAlwaysOnOneAxis ==
    ValidDataModel =>
        /\ simpc # "raised"
        /\ (/\ simpc = "inner"
            /\ is_valid_position(width, height, PointAdd(current, direction))
            /\ PointAdd(current, direction) \in DOMAIN grid) =>
              ((current[1] = PointAdd(current, direction)[1])
                  # (current[2] = PointAdd(current, direction)[2]))

\* C28: simulate_lasers records a point only when a beam steps onto it: the
\* set grows only in a pass of the inner loop and only by the point the beam
\* has stepped onto, never by the origin of a beam as such; so on a board
\* without blocks the origin of the source is not in the returned set, and a
\* target on it is not hit.
C28_OriginNotRecorded ==
    [][/\ visited' \subseteq
            visited \cup (IF simpc = "inner"
                          THEN {PointAdd(current, direction)} ELSE {})
       /\ (simpc' = "returned" /\ DOMAIN grid = {}) =>
             /\ lasers[1].origin \notin visited'
             /\ ~({lasers[1].origin} \subseteq visited')]_vars

\* a reflected beam has stepped onto the origin of the source
C28_Witness ==
    /\ simpc = "returned"
    /\ lasers[1].origin \in visited
    /\ lasers[1].origin \notin DOMAIN grid

\* the points of the straight line through p along d
LineThrough(p, d) ==
    {<<p[1] + n * d[1], p[2] + n * d[2]>> : n \in (0 - 2 * MaxCells)..(2 * MaxCells)}

C6_Terminates == <>(simpc \in {"returned", "raised"})

(***************************************************************************)
(* SpecTwice: simulate_lasers is called twice in a row on a board built by *)
(* parse_bff from a grid with at least two rows and two columns holding at *)
(* most MaxBlocks blocks, with one source anywhere on the lattice. hpc is   *)
(* "start", "first" (the first call was made) or "second".                 *)
(***************************************************************************)
InitTwice ==
    /\ \E s \in {sh \in Shapes : sh[1] > 1 /\ sh[2] > 1} :
         \E cells \in CellGrids({"x", "A", "B", "C"}, s) :
           \E x \in 0..(2 * s[1] - 1), y \in 0..(2 * s[2] - 1), dx \in RawDirs, dy \in RawDirs :
             /\ NumCells(cells, Kinds) <= MaxBlocks
             /\ BoardIs(parse_bff(cells, NoBlocks, <<<<x, y, dx, dy>>>>, <<>>))
             /\ bff_grid = cells
    /\ written = <<>>
    /\ prev_paths = {}
    /\ prev_targets = {}
    /\ hpc = "start"
    /\ IdleInteract
    /\ IdleSim
    /\ IdleSolver
    /\ IdleLazor
    /\ IdlePoint
    /\ IdleOpt

\* first = board.simulate_lasers()
SimFirst ==
    /\ hpc = "start"
    /\ SimBegin
    /\ hpc' = "first"
    /\ UNCHANGED <<bff_grid, written, prev_paths, prev_targets>>
    /\ UNCHANGED <<ivars, pvars, ovars, bvars, svars, lvars>>

\* the first call has returned; second = board.simulate_lasers()
SimSecond ==
    /\ hpc = "first"
    /\ simpc = "returned"
    /\ prev_paths' = visited
    /\ SimBegin
    /\ hpc' = "second"
    /\ UNCHANGED <<bff_grid, written, prev_targets>>
    /\ UNCHANGED <<ivars, pvars, ovars, bvars, svars, lvars>>

NextTwice == SimFirst \/ SimPop \/ SimStep \/ SimReturn \/ SimSecond

SpecTwice == InitTwice /\ [][NextTwice]_vars

\* C12: two calls of simulate_lasers in a row on a board that is not changed
\* in between return the same set of points: when the second call returns,
\* its result is the result of the first, and it does not raise.
C12_SecondCallSameSet ==
    hpc = "second" =>
        /\ simpc # "raised"
        /\ simpc = "returned" => visited = prev_paths

\* the second call returned on a board where a beam entered a block and at
\* least three beams were walked
C12_Witness ==
    /\ hpc = "second"
    /\ simpc = "returned"
    /\ visited \cap DOMAIN grid # {}
    /\ Cardinality(visited_laser_origins) >= 3

(***************************************************************************)
(* solver and its recursive try_place. spc is "idle" (not called), "enter" *)
(* (a call of try_place begins), "loop" (at its for loop), "is_solved"     *)
(* (inside board.is_solved), "after" (a recursive call has returned to the *)
(* frame on top of the stack), "exit" (try_place(0) has returned),         *)
(* "returned" and "raised" (an exception left solver).                     *)
(***************************************************************************)
\* [block_type] * count
Repeat(block_type, count) == [n \in 1..count |-> block_type]

\* blocks_placable: the available counts spread out, in the order of the dict
Placable(avail) == Repeat("A", avail["A"]) \o Repeat("B", avail["B"]) \o Repeat("C", avail["C"])

\* is_solved, given the result of simulate_lasers
all_targets_hit(ts, laser_paths) == ts \subseteq laser_paths

Top == stack[Len(stack)]

Pop(st) == SubSeq(st, 1, Len(st) - 1)

ReplaceTop(st, frame) == [st EXCEPT ![Len(st)] = frame]

\* where control goes when a call of try_place returns
AfterReturn(st) == IF st = <<>> THEN "exit" ELSE "after"

\* solver is called: blocks_placable, solution, and the call try_place(0)
SolverBegin ==
    /\ spc = "idle"
    /\ blocks_placable' = Placable(available_blocks)
    /\ solution' = <<>>
    /\ stack' = <<[index |-> 0, i |-> 1]>>
    /\ spc' = "enter"
    /\ grid0' = grid
    /\ UNCHANGED <<ret, sresult, ivars, pvars, hvars, ovars, bvars, simvars, lvars>>

\* the head of try_place: with every block placed, board.is_solved() is
\* called, which calls simulate_lasers
TryPlaceEnter ==
    /\ spc = "enter"
    /\ IF Top.index >= Len(blocks_placable)
       THEN /\ spc' = "is_solved"
            /\ SimBegin
       ELSE /\ spc' = "loop"
            /\ UNCHANGED simvars
    /\ UNCHANGED <<blocks_placable, solution, stack, ret, sresult, grid0, ivars, pvars, hvars, ovars, bvars, lvars>>

\* is_solved returns whether every target is in the simulated paths, and
\* try_place returns that
IsSolvedReturn ==
    /\ spc = "is_solved"
    /\ simpc = "returned"
    /\ ret' = all_targets_hit(targets, visited)
    /\ stack' = Pop(stack)
    /\ spc' = AfterReturn(stack')
    /\ visited' = {}
    /\ visited_laser_origins' = {}
    /\ simpc' = "idle"
    /\ UNCHANGED <<active_lasers, current, direction, passes>>
    /\ UNCHANGED <<blocks_placable, solution, sresult, grid0, ivars, pvars, hvars, ovars, bvars, lvars>>

\* the ValueError of an interact leaves simulate_lasers, is_solved, every
\* call of try_place and solver
IsSolvedRaise ==
    /\ spc = "is_solved"
    /\ simpc = "raised"
    /\ spc' = "raised"
    /\ stack' = <<>>
    /\ simpc' = "idle"
    /\ UNCHANGED <<visited, visited_laser_origins, active_lasers, current, direction, passes>>
    /\ UNCHANGED <<blocks_placable, solution, ret, sresult, grid0, ivars, pvars, hvars, ovars, bvars, lvars>>

\* a try_place without `if pos in board.grid: continue`
TryPlaceLoopNoSkip ==
    /\ spc = "loop"
    /\ IF Top.i > Len(empty_positions)
       THEN /\ ret' = FALSE
            /\ stack' = Pop(stack)
            /\ spc' = AfterReturn(stack')
            /\ UNCHANGED <<grid, solution>>
       ELSE LET pos == empty_positions[Top.i]
                current_type == blocks_placable[Top.index + 1]
                added == add_block(grid, pos, Block(current_type, FALSE))
            IN  IF added.raised
                THEN /\ spc' = "raised"
                     /\ stack' = <<>>
                     /\ UNCHANGED <<grid, solution, ret>>
                ELSE /\ grid' = added.grid
                     /\ solution' = Append(solution, [kind |-> current_type, pos |-> pos])
                     /\ stack' = Append(stack, [index |-> Top.index + 1, i |-> 1])
                     /\ spc' = "enter"
                     /\ UNCHANGED ret
    /\ UNCHANGED <<blocks_placable, sresult, grid0, ivars, pvars, hvars, ovars, simvars, lvars>>
    /\ UNCHANGED <<width, height, lasers, targets, available_blocks, empty_positions>>

\* one pass of `for pos in board.empty_positions`: the loop ends (return
\* False), skips an occupied position, or places the block and recurses
TryPlaceLoop ==
    /\ spc = "loop"
    /\ IF Top.i > Len(empty_positions)
       THEN /\ ret' = FALSE
            /\ stack' = Pop(stack)
            /\ spc' = AfterReturn(stack')
            /\ UNCHANGED <<grid, solution>>
       ELSE LET pos == empty_positions[Top.i]
                current_type == blocks_placable[Top.index + 1]
                added == add_block(grid, pos, Block(current_type, FALSE))
            IN  IF pos \in DOMAIN grid
                THEN /\ stack' = ReplaceTop(stack, [Top EXCEPT !.i = @ + 1])
                     /\ UNCHANGED <<grid, solution, ret, spc>>
                ELSE IF added.raised
                THEN /\ spc' = "raised"
                     /\ stack' = <<>>
                     /\ UNCHANGED <<grid, solution, ret>>
                ELSE /\ grid' = added.grid
                     /\ solution' = Append(solution, [kind |-> current_type, pos |-> pos])
                     /\ stack' = Append(stack, [index |-> Top.index + 1, i |-> 1])
                     /\ spc' = "enter"
                     /\ UNCHANGED ret
    /\ UNCHANGED <<blocks_placable, sresult, grid0, ivars, pvars, hvars, ovars, simvars, lvars>>
    /\ UNCHANGED <<width, height, lasers, targets, available_blocks, empty_positions>>

\* a try_place that removes its block on every exit path, success included
TryPlaceAfterAlwaysRemove ==
    /\ spc = "after"
    /\ grid' = del_block(grid, empty_positions[Top.i])
    /\ solution' = SubSeq(solution, 1, Len(solution) - 1)
    /\ IF ret
       THEN /\ stack' = Pop(stack)
            /\ spc' = AfterReturn(stack')
       ELSE /\ stack' = ReplaceTop(stack, [Top EXCEPT !.i = @ + 1])
            /\ spc' = "loop"
    /\ UNCHANGED <<blocks_placable, ret, sresult, grid0, ivars, pvars, hvars, ovars, simvars, lvars>>
    /\ UNCHANGED <<width, height, lasers, targets, available_blocks, empty_positions>>

\* a try_place that gives up after the first position that fails
TryPlaceAfterGiveUp ==
    /\ spc = "after"
    /\ IF ret
       THEN UNCHANGED <<grid, solution>>
       ELSE /\ grid' = del_block(grid, empty_positions[Top.i])
            /\ solution' = SubSeq(solution, 1, Len(solution) - 1)
    /\ stack' = Pop(stack)
    /\ spc' = AfterReturn(stack')
    /\ UNCHANGED <<blocks_placable, ret, sresult, grid0, ivars, pvars, hvars, ovars, simvars, lvars>>
    /\ UNCHANGED <<width, height, lasers, targets, available_blocks, empty_positions>>

\* a try_place that forgets `del board.grid[pos]` when its branch fails
TryPlaceAfterKeepBlock ==
    /\ spc = "after"
    /\ IF ret
       THEN /\ stack' = Pop(stack)
            /\ spc' = AfterReturn(stack')
            /\ UNCHANGED <<grid, solution>>
       ELSE /\ solution' = SubSeq(solution, 1, Len(solution) - 1)
            /\ stack' = ReplaceTop(stack, [Top EXCEPT !.i = @ + 1])
            /\ spc' = "loop"
            /\ UNCHANGED grid
    /\ UNCHANGED <<blocks_placable, ret, sresult, grid0, ivars, pvars, hvars, ovars, simvars, lvars>>
    /\ UNCHANGED <<width, height, lasers, targets, available_blocks, empty_positions>>

\* try_place(index + 1) has returned: return True, or remove the block and
\* go on with the next position
TryPlaceAfter ==
    /\ spc = "after"
    /\ IF ret
       THEN /\ stack' = Pop(stack)
            /\ spc' = AfterReturn(stack')
            /\ UNCHANGED <<grid, solution>>
       ELSE /\ grid' = del_block(grid, empty_positions[Top.i])
            /\ solution' = SubSeq(solution, 1, Len(solution) - 1)
            /\ stack' = ReplaceTop(stack, [Top EXCEPT !.i = @ + 1])
            /\ spc' = "loop"
    /\ UNCHANGED <<blocks_placable, ret, sresult, grid0, ivars, pvars, hvars, ovars, simvars, lvars>>
    /\ UNCHANGED <<width, height, lasers, targets, available_blocks, empty_positions>>

\* `if try_place(0): return solution`, else `return None`
SolverReturn ==
    /\ spc = "exit"
    /\ sresult' = IF ret THEN "solution" ELSE "None"
    /\ spc' = "returned"
    /\ UNCHANGED <<blocks_placable, solution, stack, ret, grid0, ivars, pvars, hvars, ovars, bvars, simvars, lvars>>

(***************************************************************************)
(* SpecSolve: solver is called once on a board built by parse_bff from a   *)
(* grid with at least two rows and two columns, at most MaxFixed fixed     *)
(* blocks and any number of 'o' cells, with at most MaxPlace blocks to     *)
(* place, one source on the top border (pointing down, or down and right)  *)
(* and at most MaxTargets P lines.                                         *)
(***************************************************************************)
SolverShapes == {s \in Shapes : s[1] > 1 /\ s[2] > 1}

Counts == {a \in [Kinds -> 0..MaxPlace] : a["A"] + a["B"] + a["C"] <= MaxPlace}

\* the L lines tried: <<x, y, dx, dy>>
SolverSources(s) == {<<0, 0, 0, 1>>, <<2, 0, 0, 1>>, <<0, 0, 1, 1>>}

\* the P lines tried: a point of the source's column below row 2, and the
\* first point of row 2
SolverTargets(src) == {<<src[1], 3>>, <<0, 2>>}

Lists(S, n) == UNION {[1..m -> S] : m \in 0..n}

InitSolve ==
    /\ \E s \in SolverShapes :
         \E cells \in CellGrids({"x", "o", "A", "B", "C"}, s), avail \in Counts :
           \E src \in SolverSources(s) :
             \E ts \in Lists(SolverTargets(src), MaxTargets) :
               /\ NumCells(cells, Kinds) <= MaxFixed
               /\ BoardIs(parse_bff(cells, avail, <<src>>, ts))
    /\ IdleInteract
    /\ IdleSim
    /\ IdleSolver
    /\ IdleLazor
    /\ IdlePoint
    /\ IdleOpt
    /\ IdleScript

NextSolve ==
    \/ SolverBegin
    \/ TryPlaceEnter
    \/ SimPop
    \/ SimStep
    \/ SimReturn
    \/ IsSolvedReturn
    \/ IsSolvedRaise
    \/ TryPlaceLoop
    \/ TryPlaceAfter
    \/ SolverReturn

SpecSolve == InitSolve /\ [][NextSolve]_vars

\* the positions of board.empty_positions
EmptySet == {empty_positions[i] : i \in 1..Len(empty_positions)}

\* the blocks the search has put on the board
Placed == DOMAIN grid \ DOMAIN grid0

NumOfKind(g, S, k) == Cardinality({p \in S : g[p].kind = k})

\* C7: when solver reports success, every target is in the simulated paths
\* and board.grid holds the original fixed blocks plus exactly one
\* search-placed block per available instance (per kind, as many as
\* available_blocks says), each on its own position of empty_positions.
C7_SuccessLeavesSolvedBoard ==
    (spc = "returned" /\ sresult = "solution") =>
        /\ targets \subseteq Illuminated(grid)
        /\ \A p \in DOMAIN grid0 : p \in DOMAIN grid /\ grid[p] = grid0[p]
        /\ Placed \subseteq EmptySet
        /\ \A p \in Placed : ~grid[p].fixed
        /\ \A k \in Kinds : NumOfKind(grid, Placed, k) = available_blocks[k]
        /\ Len(solution) = Cardinality(Placed)
        /\ \A n \in 1..Len(solution) :
             /\ solution[n].pos \in Placed
             /\ grid[solution[n].pos].kind = solution[n].kind

\* solver reported success after placing two blocks on a board that has a
\* fixed block and a target
C7_Witness ==
    /\ spc = "returned"
    /\ sresult = "solution"
    /\ Len(blocks_placable) = 2
    /\ DOMAIN grid0 # {}
    /\ targets # {}

\* every way of putting all available blocks on distinct empty positions
Placements ==
    {pl \in UNION {[S -> Kinds] : S \in SUBSET EmptySet} :
        \A k \in Kinds : Cardinality({p \in DOMAIN pl : pl[p] = k}) = available_blocks[k]}

WithPlacement(g, pl) ==
    [p \in DOMAIN g \cup DOMAIN pl |-> IF p \in DOMAIN pl THEN Block(pl[p], FALSE) ELSE g[p]]

Solvable == \E pl \in Placements : targets \subseteq Illuminated(WithPlacement(grid0, pl))

\* C8: when solver returns None, no assignment of all available blocks to
\* distinct empty positions illuminates every target; and with no block
\* available and a target the fixed board does not cover, solver returns None.
C8_NoneMeansUnsolvable ==
    /\ (spc = "returned" /\ sresult = "None") => ~Solvable
    /\ (/\ spc = "returned"
        /\ \A k \in Kinds : available_blocks[k] = 0
        /\ ~(targets \subseteq Illuminated(grid0))) => sresult = "None"

\* solver returned None after trying two blocks on at least two positions
C8_Witness ==
    /\ spc = "returned"
    /\ sresult = "None"
    /\ Len(blocks_placable) = 2
    /\ Len(empty_positions) >= 2

\* the board of the small scenario: one placeable cell (at <<2, 2>>), one
\* Reflector available, one source at <<2, 0>> pointing down, one target at
\* <<0, 2>>
Scenario ==
    /\ spc # "idle"
    /\ width = 4
    /\ height = 4
    /\ grid0 = EmptyGrid
    /\ empty_positions = <<(<<2, 2>>)>>
    /\ available_blocks = [k \in Kinds |-> IF k = "A" THEN 1 ELSE 0]
    /\ lasers = <<[origin |-> <<2, 0>>, direction |-> <<0, 1>>]>>
    /\ targets = {<<0, 2>>}

ReflectorPlaced == DOMAIN grid = {<<2, 2>>} /\ grid[<<2, 2>>].kind = "A"

C11_ReturnsSolutionOrNone ==
    ~(ENABLED NextSolve) => (spc = "returned" /\ sresult \in {"solution", "None"})

\* the scheduling of a sequential program: a statement that can run, runs
FairSpecSolve == SpecSolve /\ WF_vars(NextSolve)

\* every call of solver comes to an end: it returns, or an exception leaves it
SolverStops == <>(spc \in {"returned", "raised"})

\* the positions of the blocks recorded in the solution list
SolutionPositions == {solution[n].pos : n \in 1..Len(solution)}

\* the calls of try_place that have placed a block and not removed it: every
\* frame below the top, and the top one while its recursive call returns
PlacingFrames == IF spc = "after" THEN Len(stack) ELSE Len(stack) - 1

\* C20: when solver returns None, board.grid is what it was before the call;
\* and at every moment of the search the search-placed blocks of board.grid
\* are exactly those of the current partial placement: one per block of
\* solution, of its kind and not fixed, at the position the loop of the
\* frame that placed it has reached.
C20_PlacementsUndone ==
    /\ (spc = "returned" /\ sresult = "None") => grid = grid0
    /\ spc # "idle" =>
          /\ \A p \in DOMAIN grid0 : p \in DOMAIN grid /\ grid[p] = grid0[p]
          /\ Placed = SolutionPositions
          /\ Len(solution) = Cardinality(Placed)
          /\ \A n \in 1..Len(solution) :
                grid[solution[n].pos] = Block(solution[n].kind, FALSE)
          /\ (stack # <<>> /\ ~ret) =>
                /\ Len(solution) = PlacingFrames
                /\ \A n \in 1..PlacingFrames :
                      solution[n].pos = empty_positions[stack[n].i]

\* solver returned None after placing and removing blocks around a fixed block
C20_Witness ==
    /\ spc = "returned"
    /\ sresult = "None"
    /\ Len(blocks_placable) = 2
    /\ Len(empty_positions) >= 2
    /\ DOMAIN grid0 # {}

\* the loop of try_place has reached a position that holds a block
AtOccupiedPosition ==
    /\ spc = "loop"
    /\ Top.i <= Len(empty_positions)
    /\ empty_positions[Top.i] \in DOMAIN grid

\* C21: the search never places a block on an occupied position: a pass of
\* the loop of try_place that finds its position in board.grid leaves the
\* grid as it is and moves to the next position, and no pass of the loop
\* ends in the ValueError of add_block.
C21_NeverPlacesOnOccupied ==
    [][/\ AtOccupiedPosition => (grid' = grid /\ spc' = "loop")
       /\ ~(spc = "loop" /\ spc' = "raised")]_vars

\* the search skipped the position of a block it placed one level up
C21_Witness ==
    /\ spc = "loop"
    /\ Len(stack) = 2
    /\ stack[2].i = 2
    /\ empty_positions[1] \in Placed

\* C22: parse_bff marks the blocks of the grid section fixed and the search
\* marks the blocks it places not fixed; no step of solver removes or
\* replaces a fixed block, and every block a step removes is one the search
\* placed itself.
C22_FixedBlocksStay ==
    [][/\ \A p \in DOMAIN grid :
             grid[p].fixed => (p \in DOMAIN grid' /\ grid'[p] = grid[p])
       /\ \A p \in DOMAIN grid \ DOMAIN grid' :
             ~grid[p].fixed /\ p \in SolutionPositions
       /\ \A p \in DOMAIN grid' \ DOMAIN grid : ~grid'[p].fixed
       /\ spc = "idle" => \A p \in DOMAIN grid : grid[p].fixed]_vars

\* the search has just removed a block it placed next to a fixed block
C22_Witness ==
    /\ spc = "loop"
    /\ Len(stack) = 1
    /\ Top.i = 2
    /\ Placed = {}
    /\ \E p \in DOMAIN grid : grid[p].fixed

\* C27: simulate_lasers and is_solved leave the board unchanged: no step
\* taken between the call of is_solved and its return changes board.grid,
\* board.lasers, board.targets, board.available_blocks, board.empty_positions
\* or the board's size.
C27_SimulationLeavesBoard ==
    [][(spc = "is_solved" \/ simpc \in {"outer", "inner", "returned", "raised"})
          => UNCHANGED bvars]_vars

\* is_solved has simulated a board on which a beam met a placed block
C27_Witness ==
    /\ spc = "is_solved"
    /\ simpc = "returned"
    /\ visited \cap Placed # {}
    /\ lasers # <<>>

(***************************************************************************)
(* The files: a file is the list of its lines, a line the list of its      *)
(* words and of the blanks between them, each a string.                    *)
(***************************************************************************)
\* ' '.join(row)
RECURSIVE Join(_)
Join(row) == IF Len(row) <= 1 THEN row ELSE <<row[1], " ">> \o Join(Tail(row))

\* line.split()
Split(line) == SelectSeq(line, LAMBDA c : c # " ")

\* int(word)
IntOf(word) == CHOOSE n \in (0 - 9)..9 : ToString(n) = word

GridStart == <<"GRID", " ", "START">>

GridStop == <<"GRID", " ", "STOP">>

\* what save_solution appends to solution_row for a cell whose fine
\* position is pos
SolutionLetter(g, cell, pos) ==
    IF cell = "x" THEN "x"
    ELSE IF cell = "o"
    THEN IF pos \in DOMAIN g THEN g[pos].kind ELSE "o"
    ELSE cell

\* a save_solution that looks the block up at the position of the coarse grid
save_solution_coarse(g, cells) ==
    <<GridStart>>
    \o [r \in 1..Len(cells) |->
          Join([c \in 1..Len(cells[r]) |-> SolutionLetter(g, cells[r][c], Point(c - 1, r - 1))])]
    \o <<GridStop>>

\* save_solution: the lines written to the file
save_solution(g, cells) ==
    <<GridStart>>
    \o [r \in 1..Len(cells) |->
          Join([c \in 1..Len(cells[r]) |->
                  SolutionLetter(g, cells[r][c], Point((c - 1) * 2, (r - 1) * 2))])]
    \o <<GridStop>>

\* the lines parse_bff keeps: not empty, not a comment
Kept(lines) == SelectSeq(lines, LAMBDA l : l # <<>> /\ l[1] # "#")

\* the loop of parse_bff over the lines; acc holds grid, available_blocks,
\* lasers and targets as read so far
RECURSIVE ReadLines(_, _, _)
ReadLines(lines, read_grid, acc) ==
    IF lines = <<>> THEN acc
    ELSE LET line == Head(lines)
             parts == Split(line)
         IN  IF line = GridStart THEN ReadLines(Tail(lines), TRUE, acc)
             ELSE IF line = GridStop THEN ReadLines(Tail(lines), FALSE, acc)
             ELSE IF read_grid
             THEN ReadLines(Tail(lines), read_grid, [acc EXCEPT !.grid = Append(@, parts)])
             ELSE IF parts = <<>> THEN ReadLines(Tail(lines), read_grid, acc)
             ELSE IF parts[1] \in {"A", "B", "C"}
             THEN ReadLines(Tail(lines), read_grid,
                            [acc EXCEPT !.available_blocks[parts[1]] = IntOf(parts[2])])
             ELSE IF parts[1] = "L"
             THEN ReadLines(Tail(lines), read_grid,
                            [acc EXCEPT !.lasers = Append(@, <<IntOf(parts[2]), IntOf(parts[3]),
                                                               IntOf(parts[4]), IntOf(parts[5])>>)])
             ELSE IF parts[1] = "P"
             THEN ReadLines(Tail(lines), read_grid,
                            [acc EXCEPT !.targets = Append(@, <<IntOf(parts[2]), IntOf(parts[3])>>)])
             ELSE ReadLines(Tail(lines), read_grid, acc)

\* parse_bff(filename): the grid and the board it returns for a file
parse_bff_file(lines) ==
    LET acc == ReadLines(Kept(lines), FALSE,
                         [grid |-> <<>>, available_blocks |-> NoBlocks,
                          lasers |-> <<>>, targets |-> <<>>])
    IN  [grid |-> acc.grid,
         board |-> parse_bff(acc.grid, acc.available_blocks, acc.lasers, acc.targets)]

(***************************************************************************)
(* SpecRoundTrip: the program parses a file of the family of SpecSolve and *)
(* calls solver; when the list solver returned is true it calls            *)
(* save_solution, else it prints "No solution."; a script then simulates   *)
(* the solved board, parses the file save_solution wrote and simulates the *)
(* board parsed from it. hpc is "solving", "saved", "no_solution",         *)
(* "simulated" (simulate_lasers was called on the solved board),           *)
(* "reparsed" or "resimulated".                                            *)
(***************************************************************************)
InitRoundTrip ==
    /\ \E s \in SolverShapes :
         \E cells \in CellGrids({"x", "o", "A", "B", "C"}, s), avail \in Counts :
           \E src \in SolverSources(s) :
             \E ts \in Lists(SolverTargets(src), MaxTargets) :
               /\ NumCells(cells, Kinds) <= MaxFixed
               /\ BoardIs(parse_bff(cells, avail, <<src>>, ts))
               /\ bff_grid = cells
    /\ written = <<>>
    /\ prev_paths = {}
    /\ prev_targets = {}
    /\ hpc = "solving"
    /\ IdleInteract
    /\ IdleSim
    /\ IdleSolver
    /\ IdleLazor
    /\ IdlePoint
    /\ IdleOpt

\* `if solution: save_solution(board, grid, output_file)`: the list solver
\* returned is tested for truth, and an empty list is false like None
SaveSolution ==
    /\ hpc = "solving"
    /\ spc = "returned"
    /\ sresult = "solution"
    /\ solution # <<>>
    /\ written' = save_solution(grid, bff_grid)
    /\ hpc' = "saved"
    /\ UNCHANGED <<bff_grid, prev_paths, prev_targets>>
    /\ UNCHANGED <<ivars, pvars, ovars, bvars, simvars, svars, lvars>>

\* `else: print("No solution.")`
MainNoSolution ==
    /\ hpc = "solving"
    /\ spc = "returned"
    /\ ~(sresult = "solution" /\ solution # <<>>)
    /\ hpc' = "no_solution"
    /\ UNCHANGED <<bff_grid, written, prev_paths, prev_targets>>
    /\ UNCHANGED <<ivars, pvars, ovars, bvars, simvars, svars, lvars>>

\* paths = board.simulate_lasers() on the solved board
SimSolved ==
    /\ hpc = "saved"
    /\ SimBegin
    /\ hpc' = "simulated"
    /\ UNCHANGED <<bff_grid, written, prev_paths, prev_targets>>
    /\ UNCHANGED <<ivars, pvars, ovars, bvars, svars, lvars>>

\* grid, board = parse_bff(output_file): from here on board is the board
\* parsed from the written file
Reparse ==
    /\ hpc = "simulated"
    /\ simpc = "returned"
    /\ prev_paths' = visited
    /\ prev_targets' = targets
    /\ LET parsed == parse_bff_file(written)
       IN  /\ bff_grid' = parsed.grid
           /\ width' = parsed.board.width
           /\ height' = parsed.board.height
           /\ grid' = parsed.board.grid
           /\ lasers' = parsed.board.lasers
           /\ targets' = parsed.board.targets
           /\ available_blocks' = parsed.board.available_blocks
           /\ empty_positions' = parsed.board.empty_positions
    /\ simpc' = "idle"
    /\ hpc' = "reparsed"
    /\ UNCHANGED <<visited, visited_laser_origins, active_lasers, current, direction, passes>>
    /\ UNCHANGED <<written, ivars, pvars, ovars, svars, lvars>>

\* board.simulate_lasers() on the board parsed from the written file
SimReparsed ==
    /\ hpc = "reparsed"
    /\ SimBegin
    /\ hpc' = "resimulated"
    /\ UNCHANGED <<bff_grid, written, prev_paths, prev_targets>>
    /\ UNCHANGED <<ivars, pvars, ovars, bvars, svars, lvars>>

NextRoundTrip ==
    \/ NextSolve
    \/ SaveSolution
    \/ MainNoSolution
    \/ SimSolved
    \/ Reparse
    \/ SimReparsed

SpecRoundTrip == InitRoundTrip /\ [][NextRoundTrip]_vars

\* C23: every key of board.grid, parsed or placed by the search, has even
\* coordinates and lies inside the board: 0 <= x < 2W and 0 <= y < 2H for a
\* grid of W columns and H rows, which is the range is_valid_position accepts.
C23_BlocksOnEvenLattice ==
    \A p \in DOMAIN grid :
       /\ p[1] % 2 = 0 /\ p[2] % 2 = 0
       /\ 0 <= p[1] /\ p[1] < 2 * Len(bff_grid[1])
       /\ 0 <= p[2] /\ p[2] < 2 * Len(bff_grid)
       /\ is_valid_position(width, height, p)

\* the search has placed a block in the last cell of the last row
C23_Witness ==
    /\ spc = "is_solved"
    /\ <<width - 2, height - 2>> \in Placed

\* C30: the program treats solver's result as success exactly when the
\* search found the board solved: when try_place(0) returned True the
\* solution is saved, and "No solution." is printed only when it returned
\* False.
C30_SuccessIsReported ==
    /\ hpc = "no_solution" => sresult = "None"
    /\ hpc = "saved" => sresult = "solution"

\* the word of column c, row r (both from 1) of the written grid
WrittenCell(r, c) == written[r + 1][2 * c - 1]

\* C17: save_solution writes the original grid cell by cell between GRID
\* START and GRID STOP, the cells of a row separated by one blank: an 'x'
\* cell stays 'x', a fixed-block cell keeps its letter, and an 'o' cell at
\* column x, row y becomes the kind letter of the block at (2x, 2y) in
\* board.grid, or stays 'o' when no block is there.
C17_WritesGridCellByCell ==
    hpc \in {"saved", "simulated"} =>
        /\ Len(written) = Len(bff_grid) + 2
        /\ written[1] = GridStart
        /\ written[Len(written)] = GridStop
        /\ \A r \in 1..Len(bff_grid) :
             /\ Len(written[r + 1]) = 2 * Len(bff_grid[r]) - 1
             /\ \A c \in 1..(Len(bff_grid[r]) - 1) : written[r + 1][2 * c] = " "
             /\ \A c \in 1..Len(bff_grid[r]) :
                  LET cell == bff_grid[r][c]
                      pos == <<2 * (c - 1), 2 * (r - 1)>>
                  IN  /\ cell = "x" => WrittenCell(r, c) = "x"
                      /\ cell \in {"A", "B", "C"} => WrittenCell(r, c) = cell
                      /\ (cell = "o" /\ pos \in DOMAIN grid) =>
                            WrittenCell(r, c) = grid[pos].kind
                      /\ (cell = "o" /\ pos \notin DOMAIN grid) => WrittenCell(r, c) = "o"

\* a solved board was saved whose grid has an 'x' cell, a fixed block, an
\* 'o' cell holding a placed block and an 'o' cell left empty
C17_Witness ==
    /\ hpc = "saved"
    /\ NumCells(bff_grid, {"x"}) >= 1
    /\ DOMAIN grid0 # {}
    /\ Placed # {}
    /\ EmptySet \ DOMAIN grid # {}

\* C18: for a solved board, the board parse_bff builds from the file written
\* by save_solution has, under simulate_lasers, the same illuminated set as
\* the solved board, and every target of the solved board is in it.
C18_RoundTripSameIlluminated ==
    (hpc = "resimulated" /\ simpc = "returned") =>
        /\ visited = prev_paths
        /\ prev_targets \subseteq visited

\* what the written file does keep: the blocks. The grid parsed from it has
\* the blocks of the solved board, at their positions and of their kinds,
\* and with the sources of the solved board they light the same points.
GridSurvivesRoundTrip ==
    (hpc = "simulated" /\ simpc = "returned") =>
        LET parsed == parse_bff_file(written).board
        IN  /\ parsed.width = width
            /\ parsed.height = height
            /\ DOMAIN parsed.grid = DOMAIN grid
            /\ \A p \in DOMAIN grid : parsed.grid[p].kind = grid[p].kind
            /\ Illuminated(parsed.grid) = visited
            /\ parsed.lasers = <<>>
            /\ parsed.targets = {}

(***************************************************************************)
(* The first draft of the program (src/unnamed/part_000, lines 1 to 487):  *)
(* its parse_bff, its Board and its solve_lazor with a timeout.            *)
(***************************************************************************)
\* the normalisation of one direction component in the draft's add_laser
lz_norm(d) == IF d > 0 THEN 1 ELSE 0 - 1

\* the draft's Board.add_laser
lz_add_laser(ls, x, y, dx, dy) ==
    Append(ls, Laser(Point(x, y), Point(lz_norm(dx), lz_norm(dy))))

RECURSIVE LzAddLasers(_, _)
LzAddLasers(ls, raw) ==
    IF raw = <<>> THEN ls
    ELSE LzAddLasers(lz_add_laser(ls, raw[1][1], raw[1][2], raw[1][3], raw[1][4]), Tail(raw))

\* the draft's parse_bff, from the parsed lines on: the board is as wide as
\* twice the columns and as high as the rows, and holds the fixed blocks
lz_parse_bff(cells, avail, ls, ts) ==
    LET gh == Len(cells)
        gw == Len(cells[1])
        CellPos(k) == Point(2 * ((k - 1) % gw), 2 * ((k - 1) \div gw))
        CellAt(k) == cells[((k - 1) \div gw) + 1][((k - 1) % gw) + 1]
        fixedAt == {k \in 1..(gw * gh) : CellAt(k) \in {"A", "B", "C"}}
        KOf(p) == CHOOSE k \in fixedAt : CellPos(k) = p
    IN  [width |-> gw * 2,
         height |-> gh,
         grid |-> [p \in {CellPos(k) : k \in fixedAt} |-> Block(CellAt(KOf(p)), TRUE)],
         empty_positions |-> <<>>,
         available_blocks |-> avail,
         lasers |-> LzAddLasers(<<>>, ls),
         targets |-> AddTargets({}, ts)]

\* solve_lazor's empty_positions: the even points of 0..width by 0..height
\* that hold no block, row by row
LzEmptyPositions(w, h, g) ==
    LET nx == (w \div 2) + 1
        ny == (h \div 2) + 1
        At(k) == Point(2 * ((k - 1) % nx), 2 * ((k - 1) \div nx))
        Free(k) == At(k) \notin DOMAIN g
        ks == SelectSeq([k \in 1..(nx * ny) |-> k], Free)
    IN  [i \in 1..Len(ks) |-> At(ks[i])]

\* the draft's simulate_lasers: its file never imports copy, so the copy of
\* the first source raises NameError; with no source it returns the empty set
lz_simulate_lasers(ls) ==
    IF ls = <<>> THEN [raised |-> FALSE, visited |-> {}] ELSE [raised |-> TRUE, visited |-> {}]

InList(x, seq) == \E n \in 1..Len(seq) : seq[n] = x

\* solve_lazor is called: start_time, empty_positions, blocks_to_place, and
\* the call backtrack(0, [])
LazorBegin ==
    /\ spc = "idle"
    /\ lz_empty_positions' = LzEmptyPositions(width, height, grid)
    /\ blocks_to_place' = Placable(available_blocks)
    /\ used_positions' = <<>>
    /\ expired' = FALSE
    /\ timed_out' = FALSE
    /\ stack' = <<[index |-> 0, i |-> 1]>>
    /\ spc' = "enter"
    /\ grid0' = grid
    /\ UNCHANGED <<blocks_placable, solution, ret, sresult, ivars, pvars, hvars, ovars, bvars, simvars>>

\* the head of backtrack: the timeout check (the clock may have passed the
\* deadline since it was last read), then the base case with is_solved
BacktrackEnter ==
    /\ spc = "enter"
    /\ \E late \in IF expired THEN {TRUE} ELSE BOOLEAN :
         /\ expired' = late
         /\ IF late
            THEN /\ timed_out' = TRUE
                 /\ ret' = FALSE
                 /\ stack' = Pop(stack)
                 /\ spc' = AfterReturn(stack')
            ELSE IF Top.index = Len(blocks_to_place)
            THEN LET laser_paths == lz_simulate_lasers(lasers)
                 IN  IF laser_paths.raised
                     THEN /\ spc' = "raised"
                          /\ stack' = <<>>
                          /\ UNCHANGED <<ret, timed_out>>
                     ELSE /\ ret' = all_targets_hit(targets, laser_paths.visited)
                          /\ stack' = Pop(stack)
                          /\ spc' = AfterReturn(stack')
                          /\ UNCHANGED timed_out
            ELSE /\ spc' = "loop"
                 /\ UNCHANGED <<ret, stack, timed_out>>
    /\ UNCHANGED <<lz_empty_positions, blocks_to_place, used_positions>>
    /\ UNCHANGED <<blocks_placable, solution, sresult, grid0, ivars, pvars, hvars, ovars, bvars, simvars>>

\* one pass of `for pos in empty_positions`: the loop ends (return False),
\* skips a used position, or places the block and recurses
BacktrackLoop ==
    /\ spc = "loop"
    /\ IF Top.i > Len(lz_empty_positions)
       THEN /\ ret' = FALSE
            /\ stack' = Pop(stack)
            /\ spc' = AfterReturn(stack')
            /\ UNCHANGED <<grid, used_positions>>
       ELSE LET pos == lz_empty_positions[Top.i]
                added == add_block(grid, pos, Block(blocks_to_place[Top.index + 1], FALSE))
            IN  IF InList(pos, used_positions)
                THEN /\ stack' = ReplaceTop(stack, [Top EXCEPT !.i = @ + 1])
                     /\ UNCHANGED <<grid, used_positions, ret, spc>>
                ELSE IF added.raised
                THEN /\ spc' = "raised"
                     /\ stack' = <<>>
                     /\ UNCHANGED <<grid, used_positions, ret>>
                ELSE /\ grid' = added.grid
                     /\ used_positions' = Append(used_positions, pos)
                     /\ stack' = Append(stack, [index |-> Top.index + 1, i |-> 1])
                     /\ spc' = "enter"
                     /\ UNCHANGED ret
    /\ UNCHANGED <<lz_empty_positions, blocks_to_place, expired, timed_out>>
    /\ UNCHANGED <<blocks_placable, solution, sresult, grid0, ivars, pvars, hvars, ovars, simvars>>
    /\ UNCHANGED <<width, height, lasers, targets, available_blocks, empty_positions>>

\* backtrack(index + 1, used_positions) has returned: return True, or remove
\* the block and go on with the next position
BacktrackAfter ==
    /\ spc = "after"
    /\ IF ret
       THEN /\ stack' = Pop(stack)
            /\ spc' = AfterReturn(stack')
            /\ UNCHANGED <<grid, used_positions>>
       ELSE /\ grid' = del_block(grid, lz_empty_positions[Top.i])
            /\ used_positions' = SubSeq(used_positions, 1, Len(used_positions) - 1)
            /\ stack' = ReplaceTop(stack, [Top EXCEPT !.i = @ + 1])
            /\ spc' = "loop"
    /\ UNCHANGED <<lz_empty_positions, blocks_to_place, expired, timed_out>>
    /\ UNCHANGED <<blocks_placable, solution, ret, sresult, grid0, ivars, pvars, hvars, ovars, simvars>>
    /\ UNCHANGED <<width, height, lasers, targets, available_blocks, empty_positions>>

\* `if backtrack(0, []): return board`, else `return None`
LazorReturn ==
    /\ spc = "exit"
    /\ sresult' = IF ret THEN "board" ELSE "None"
    /\ spc' = "returned"
    /\ UNCHANGED <<blocks_placable, solution, stack, ret, grid0, ivars, pvars, hvars, ovars, bvars, simvars, lvars>>

(***************************************************************************)
(* SpecLazor: solve_lazor is called once on a board built by the draft's   *)
(* parse_bff from a grid of at most MaxCells cells with at most MaxFixed   *)
(* fixed blocks, at most MaxPlace blocks to place, at most one L line and  *)
(* at most MaxTargets P lines.                                             *)
(***************************************************************************)
InitLazor ==
    /\ \E s \in Shapes :
         \E cells \in CellGrids({"o", "A", "B", "C"}, s), avail \in Counts :
           \E ls \in Lists({<<0, 0, 1, 1>>}, 1), ts \in Lists({<<1, 1>>, <<2, 2>>}, MaxTargets) :
             /\ NumCells(cells, Kinds) <= MaxFixed
             /\ BoardIs(lz_parse_bff(cells, avail, ls, ts))
    /\ IdleInteract
    /\ IdleSim
    /\ IdleSolver
    /\ IdleLazor
    /\ IdlePoint
    /\ IdleOpt
    /\ IdleScript

NextLazor ==
    \/ LazorBegin
    \/ BacktrackEnter
    \/ BacktrackLoop
    \/ BacktrackAfter
    \/ LazorReturn

SpecLazor == InitLazor /\ [][NextLazor]_vars

\* what solve_lazor returns when every placement was tried without success
ExhaustedResult == "None"

\* C10: a search stopped by its deadline reports an outcome the caller can
\* tell apart from the outcome of a search that exhausted every placement.
C10_TimeoutDistinctFromExhaustion ==
    (spc = "returned" /\ timed_out) => sresult # ExhaustedResult


(***************************************************************************)
(* The third draft of the program (src/unnamed/part_000, lines 756 to      *)
(* 1151): interact returning a list or nothing, simulate_lasers with an    *)
(* early exit and no record of the beams walked, and solve_lazor with a    *)
(* position heuristic, a pruning check and a timeout.                      *)
(***************************************************************************)
\* what a call of interact hands back: a list, or None
ListOf(out) == [none |-> FALSE, out |-> out]

NoneValue == [none |-> TRUE, out |-> <<>>]

\* the draft's ReflectBlock.interact: its body only defines a nested
\* function, so the call returns None
opt_ReflectInteract(block_pos, laser) == NoneValue

\* the draft's OpaqueBlock.interact
opt_OpaqueInteract(block_pos, laser) == ListOf(<<>>)

\* the draft's RefractBlock.interact: the beam going on and the beam going
\* back, both from the block's position
opt_RefractInteract(block_pos, laser) ==
    ListOf(<<Laser(block_pos, laser.direction),
             Laser(block_pos, Point(0 - laser.direction[1], 0 - laser.direction[2]))>>)

opt_Interact(kind, block_pos, laser) ==
    IF kind = "A" THEN opt_ReflectInteract(block_pos, laser)
    ELSE IF kind = "B" THEN opt_OpaqueInteract(block_pos, laser)
    ELSE opt_RefractInteract(block_pos, laser)

\* the board of the state as one value
TheBoard ==
    [width |-> width, height |-> height, grid |-> grid, lasers |-> lasers, targets |-> targets]

\* the bounds test of the draft's simulate_lasers, which accepts the far edges
opt_in_bounds(b, pos) ==
    0 <= pos[1] /\ pos[1] <= b.width /\ 0 <= pos[2] /\ pos[2] <= b.height

\* `while True` of the draft's simulate_lasers for one beam: how the loop is
\* left ("early": the return of the early exit; "break"; "TypeError": extend
\* was handed None), the points recorded and the beams to add. early says
\* whether the early-exit check is in the loop.
RECURSIVE opt_walk(_, _, _, _, _)
opt_walk(b, cur0, dir, seen, early) ==
    LET cur == PointAdd(cur0, dir)
    IN  IF early /\ b.targets \subseteq seen
        THEN [how |-> "early", visited |-> seen, out |-> <<>>]
        ELSE IF ~opt_in_bounds(b, cur)
        THEN [how |-> "break", visited |-> seen, out |-> <<>>]
        ELSE IF cur \in DOMAIN b.grid
        THEN LET new_lasers == opt_Interact(b.grid[cur].kind, cur, Laser(cur, dir))
             IN  IF new_lasers.none
                 THEN [how |-> "TypeError", visited |-> seen \cup {cur}, out |-> <<>>]
                 ELSE [how |-> "break", visited |-> seen \cup {cur}, out |-> new_lasers.out]
        ELSE opt_walk(b, cur, dir, seen \cup {cur}, early)

\* `while active_lasers` of the draft's simulate_lasers: the call returns a
\* set, raises, or has not come to an end after fuel beams
RECURSIVE opt_run(_, _, _, _, _)
opt_run(b, active, seen, early, fuel) ==
    IF active = <<>> THEN [how |-> "returned", visited |-> seen]
    ELSE IF fuel = 0 THEN [how |-> "unfinished", visited |-> seen]
    ELSE LET laser == active[Len(active)]
             w == opt_walk(b, laser.origin, laser.direction, seen, early)
         IN  IF w.how = "early" THEN [how |-> "returned", visited |-> w.visited]
             ELSE IF w.how = "TypeError" THEN [how |-> "TypeError", visited |-> w.visited]
             ELSE opt_run(b, SubSeq(active, 1, Len(active) - 1) \o w.out, w.visited, early, fuel - 1)

\* the draft's simulate_lasers, and the same loop without its early exit
opt_simulate_lasers(b) == opt_run(b, b.lasers, {}, TRUE, MaxPops)

plain_simulate_lasers(b) == opt_run(b, b.lasers, {}, FALSE, MaxPops)

\* the outcome of is_solved around a simulation: "True", "False", or how
\* the simulation failed to return
SolvedOutcome(b, sim) ==
    IF sim.how # "returned" THEN sim.how
    ELSE IF b.targets \subseteq sim.visited THEN "True" ELSE "False"

\* the draft's is_solved
opt_is_solved(b) == SolvedOutcome(b, opt_simulate_lasers(b))

\* the draft's parse_bff for a file without P lines (a P line calls
\* board.add_target, which the draft's Board does not have): the board is as
\* wide as twice the columns and as high as the rows
opt_parse_bff(cells, avail, ls) ==
    LET gh == Len(cells)
        gw == Len(cells[1])
        CellPos(k) == Point(2 * ((k - 1) % gw), 2 * ((k - 1) \div gw))
        CellAt(k) == cells[((k - 1) \div gw) + 1][((k - 1) % gw) + 1]
        fixedAt == {k \in 1..(gw * gh) : CellAt(k) \in {"A", "B", "C"}}
        KOf(p) == CHOOSE k \in fixedAt : CellPos(k) = p
    IN  [width |-> gw * 2,
         height |-> gh,
         grid |-> [p \in {CellPos(k) : k \in fixedAt} |-> Block(CellAt(KOf(p)), TRUE)],
         empty_positions |-> <<>>,
         available_blocks |-> avail,
         lasers |-> LzAddLasers(<<>>, ls),
         targets |-> {}]

\* the L lines tried
OptSources == {<<0, 0, 1, 1>>, <<3, 3, 0 - 1, 0 - 1>>, <<1, 0, 1, 1>>}

\* the points put into board.targets
OptTargets == {<<1, 1>>, <<2, 2>>, <<4, 2>>, <<3, 3>>}

\* the grids tried: those of at most MaxCells cells, and the grid of two
\* columns and three rows, the smallest on which a beam passes two block
\* positions and a point behind its source
OptShapes == Shapes \cup {<<2, 3>>}

\* the boards tried: parsed from a file with a grid of OptShapes with at
\* most MaxFixed fixed blocks, at most MaxPlace blocks to place and one L
\* line, then given at most MaxTargets targets through board.targets
InitOptBoard ==
    \E s \in OptShapes :
      \E cells \in CellGrids({"o", "A", "B", "C"}, s), avail \in Counts :
        \E src \in OptSources, ts \in SUBSET OptTargets :
          /\ NumCells(cells, Kinds) <= MaxFixed
          /\ Cardinality(ts) <= MaxTargets
          /\ BoardIs([opt_parse_bff(cells, avail, <<src>>) EXCEPT !.targets = ts])

(***************************************************************************)
(* SpecEarly: is_solved of the draft is called on a board, and then the    *)
(* same check is made with the simulator without its early exit.           *)
(***************************************************************************)
InitEarly ==
    /\ InitOptBoard
    /\ IdleInteract
    /\ IdleSim
    /\ IdleSolver
    /\ IdleLazor
    /\ IdlePoint
    /\ IdleScript
    /\ IdleOpt

\* board.is_solved()
IsSolvedEarly ==
    /\ early_result = "unset"
    /\ early_result' = opt_is_solved(TheBoard)
    /\ UNCHANGED <<lz_laser_paths, lz_placed, plain_result>>
    /\ UNCHANGED <<ivars, pvars, hvars, bvars, simvars, svars, lvars>>

\* the same check around the simulator without the early exit
IsSolvedPlain ==
    /\ early_result # "unset"
    /\ plain_result = "unset"
    /\ plain_result' = SolvedOutcome(TheBoard, plain_simulate_lasers(TheBoard))
    /\ UNCHANGED <<lz_laser_paths, lz_placed, early_result>>
    /\ UNCHANGED <<ivars, pvars, hvars, bvars, simvars, svars, lvars>>

NextEarly ==
    \/ IsSolvedEarly
    \/ IsSolvedPlain

SpecEarly == InitEarly /\ [][NextEarly]_vars

\* C26: the early exit of simulate_lasers is taken only when every target is
\* in the visited set, so on every board is_solved has the outcome it has
\* with the same simulator without the early-exit check.
C26_EarlyExitSameAnswer ==
    (early_result # "unset" /\ plain_result # "unset") => early_result = plain_result

\* where both simulators return, is_solved gives the same truth value
EarlyAgreesWherePlainReturns ==
    (early_result # "unset" /\ plain_result \in {"True", "False"}) =>
        early_result = plain_result

(***************************************************************************)
(* solve_lazor of the third draft. A frame of stack is one call of         *)
(* backtrack: its list remaining, the position pos it was given by         *)
(* get_next_position, and todo, the kinds of set(remaining) its for loop   *)
(* has not tried yet (a set is iterated in no fixed order).                *)
(***************************************************************************)
Frame(remaining) == [remaining |-> remaining, pos |-> Point(0, 0), todo |-> {}]

\* get_next_position(placed): the first empty position on the cached laser
\* paths that is not placed, else the first that is not placed, else None
get_next_position(empty, placed_now, paths) ==
    LET free == {n \in 1..Len(empty) : empty[n] \notin DOMAIN placed_now}
        lit == {n \in free : empty[n] \in paths}
        First(S) == CHOOSE n \in S : \A m \in S : n <= m
    IN  IF lit # {} THEN [none |-> FALSE, pos |-> empty[First(lit)]]
        ELSE IF free # {} THEN [none |-> FALSE, pos |-> empty[First(free)]]
        ELSE [none |-> TRUE, pos |-> Point(0, 0)]

\* [b for b in remaining if b != block_type]
Without(remaining, block_type) == SelectSeq(remaining, LAMBDA b : b # block_type)

\* solve_lazor is called: start_time, empty_positions, blocks, and the
\* simulation that fills laser_paths
OptBegin ==
    /\ spc = "idle"
    /\ lz_empty_positions' = LzEmptyPositions(width, height, grid)
    /\ blocks_to_place' = Placable(available_blocks)
    /\ expired' = FALSE
    /\ timed_out' = FALSE
    /\ grid0' = grid
    /\ LET sim == opt_simulate_lasers(TheBoard)
       IN  IF sim.how = "returned"
           THEN /\ lz_laser_paths' = sim.visited
                /\ spc' = "def"
           ELSE /\ spc' = IF sim.how = "TypeError" THEN "raised" ELSE "unfinished"
                /\ UNCHANGED lz_laser_paths
    /\ UNCHANGED <<used_positions, lz_placed, early_result, plain_result>>
    /\ UNCHANGED <<blocks_placable, solution, stack, ret, sresult, ivars, pvars, hvars, bvars, simvars>>

\* `def backtrack(remaining: List[str], placed: Dict[Point, str]) -> bool`
\* and the call backtrack(blocks, {}): the module never imports Dict, so an
\* interpreter that evaluates annotations when the function is defined
\* raises NameError here, and one that defers them goes on
DefBacktrack ==
    /\ spc = "def"
    /\ \E eager \in BOOLEAN :
         IF eager
         THEN /\ spc' = "raised"
              /\ UNCHANGED <<stack, lz_placed>>
         ELSE /\ stack' = <<Frame(blocks_to_place)>>
              /\ lz_placed' = EmptyGrid
              /\ spc' = "enter"
    /\ UNCHANGED <<lz_laser_paths, early_result, plain_result>>
    /\ UNCHANGED <<blocks_placable, solution, ret, sresult, grid0, ivars, pvars, hvars, bvars, simvars, lvars>>

\* the head of backtrack: the timeout check, the base case with is_solved,
\* and the position get_next_position gives
OptBacktrackEnter ==
    /\ spc = "enter"
    /\ \E late \in IF expired THEN {TRUE} ELSE BOOLEAN :
         /\ expired' = late
         /\ IF late
            THEN /\ timed_out' = TRUE
                 /\ ret' = FALSE
                 /\ stack' = Pop(stack)
                 /\ spc' = AfterReturn(stack')
            ELSE IF Top.remaining = <<>>
            THEN LET solved == opt_is_solved(TheBoard)
                 IN  IF solved \in {"True", "False"}
                     THEN /\ ret' = (solved = "True")
                          /\ stack' = Pop(stack)
                          /\ spc' = AfterReturn(stack')
                          /\ UNCHANGED timed_out
                     ELSE /\ spc' = IF solved = "TypeError" THEN "raised" ELSE "unfinished"
                          /\ UNCHANGED <<ret, stack, timed_out>>
            ELSE LET next == get_next_position(lz_empty_positions, lz_placed, lz_laser_paths)
                 IN  IF next.none
                     THEN /\ ret' = FALSE
                          /\ stack' = Pop(stack)
                          /\ spc' = AfterReturn(stack')
                          /\ UNCHANGED timed_out
                     ELSE /\ stack' = ReplaceTop(stack, [remaining |-> Top.remaining,
                                                         pos |-> next.pos,
                                                         todo |-> {Top.remaining[n] : n \in 1..Len(Top.remaining)}])
                          /\ spc' = "loop"
                          /\ UNCHANGED <<ret, timed_out>>
    /\ UNCHANGED <<lz_empty_positions, blocks_to_place, used_positions, ovars>>
    /\ UNCHANGED <<blocks_placable, solution, sresult, grid0, ivars, pvars, hvars, bvars, simvars>>

\* one pass of `for block_type in set(remaining)`: the loop ends (return
\* False), or a kind is placed at pos and the board simulated; the call
\* recurses if the simulation hits a target, else the block is removed
OptBacktrackLoop ==
    /\ spc = "loop"
    /\ IF Top.todo = {}
       THEN /\ ret' = FALSE
            /\ stack' = Pop(stack)
            /\ spc' = AfterReturn(stack')
            /\ UNCHANGED <<grid, lz_placed>>
       ELSE \E block_type \in Top.todo :
              LET pos == Top.pos
                  added == add_block(grid, pos, Block(block_type, FALSE))
                  rest == [Top EXCEPT !.todo = @ \ {block_type}]
                  new_paths == opt_simulate_lasers([TheBoard EXCEPT !.grid = added.grid])
                  hits_targets == \E t \in targets : t \in new_paths.visited
              IN  IF added.raised
                  THEN /\ spc' = "raised"
                       /\ UNCHANGED <<grid, lz_placed, stack, ret>>
                  ELSE IF new_paths.how # "returned"
                  THEN /\ grid' = added.grid
                       /\ lz_placed' = [q \in DOMAIN lz_placed \cup {pos} |->
                                           IF q = pos THEN block_type ELSE lz_placed[q]]
                       /\ spc' = IF new_paths.how = "TypeError" THEN "raised" ELSE "unfinished"
                       /\ UNCHANGED <<stack, ret>>
                  ELSE IF hits_targets
                  THEN /\ grid' = added.grid
                       /\ lz_placed' = [q \in DOMAIN lz_placed \cup {pos} |->
                                           IF q = pos THEN block_type ELSE lz_placed[q]]
                       /\ stack' = Append(ReplaceTop(stack, rest),
                                          Frame(Without(Top.remaining, block_type)))
                       /\ spc' = "enter"
                       /\ UNCHANGED ret
                  ELSE /\ stack' = ReplaceTop(stack, rest)
                       /\ UNCHANGED <<grid, lz_placed, ret, spc>>
    /\ UNCHANGED <<lz_laser_paths, early_result, plain_result, lvars>>
    /\ UNCHANGED <<blocks_placable, solution, sresult, grid0, ivars, pvars, hvars, simvars>>
    /\ UNCHANGED <<width, height, lasers, targets, available_blocks, empty_positions>>

\* the recursive call has returned: return True, or remove the block and go
\* on with the next kind
OptBacktrackAfter ==
    /\ spc = "after"
    /\ IF ret
       THEN /\ stack' = Pop(stack)
            /\ spc' = AfterReturn(stack')
            /\ UNCHANGED <<grid, lz_placed>>
       ELSE /\ grid' = del_block(grid, Top.pos)
            /\ lz_placed' = [q \in DOMAIN lz_placed \ {Top.pos} |-> lz_placed[q]]
            /\ spc' = "loop"
            /\ UNCHANGED stack
    /\ UNCHANGED <<lz_laser_paths, early_result, plain_result, lvars>>
    /\ UNCHANGED <<blocks_placable, solution, ret, sresult, grid0, ivars, pvars, hvars, simvars>>
    /\ UNCHANGED <<width, height, lasers, targets, available_blocks, empty_positions>>

\* `if backtrack(blocks, {}): return board`, else `return None`
OptReturn ==
    /\ spc = "exit"
    /\ sresult' = IF ret THEN "board" ELSE "None"
    /\ spc' = "returned"
    /\ UNCHANGED <<blocks_placable, solution, stack, ret, grid0, ivars, pvars, hvars, ovars, bvars, simvars, lvars>>

(***************************************************************************)
(* SpecOpt: solve_lazor of the third draft is called once on a board of    *)
(* the family of SpecEarly.                                                *)
(***************************************************************************)
InitOpt ==
    /\ InitOptBoard
    /\ IdleInteract
    /\ IdleSim
    /\ IdleSolver
    /\ IdleLazor
    /\ IdlePoint
    /\ IdleScript
    /\ IdleOpt

NextOpt ==
    \/ OptBegin
    \/ DefBacktrack
    \/ OptBacktrackEnter
    \/ OptBacktrackLoop
    \/ OptBacktrackAfter
    \/ OptReturn

SpecOpt == InitOpt /\ [][NextOpt]_vars

\* C24: each recursive step of the search takes exactly one instance of the
\* kind it has just placed out of the remaining blocks: a call of backtrack
\* has one block fewer to place than its caller, so when the solved check
\* is reached (nothing remains) the board holds as many search-placed
\* blocks as the available counts add up to.
C24_OneInstancePerStep ==
    /\ \A n \in 2..Len(stack) :
          Len(stack[n].remaining) = Len(stack[n - 1].remaining) - 1
    /\ (spc = "enter" /\ Top.remaining = <<>>) =>
          Cardinality(DOMAIN lz_placed) = Len(blocks_to_place)

\* the complete placements: every available block on its own empty position
OptPlacements ==
    {pl \in UNION {[S -> Kinds] : S \in SUBSET {lz_empty_positions[n] : n \in 1..Len(lz_empty_positions)}} :
        \A k \in Kinds : Cardinality({q \in DOMAIN pl : pl[q] = k}) = available_blocks[k]}

\* the placements the search hands to the solved check when no branch is
\* pruned: at each step the position get_next_position gives, with each
\* kind of set(remaining)
RECURSIVE Unpruned(_, _)
Unpruned(remaining, pl) ==
    IF remaining = <<>> THEN {pl}
    ELSE LET next == get_next_position(lz_empty_positions, pl, lz_laser_paths)
         IN  IF next.none THEN {}
             ELSE UNION {Unpruned(Without(remaining, k),
                                  [q \in DOMAIN pl \cup {next.pos} |->
                                      IF q = next.pos THEN k ELSE pl[q]]) :
                         k \in {remaining[n] : n \in 1..Len(remaining)}}

\* some complete placement of the available blocks that the search reaches
\* without the pruning check covers all targets
OptSolvable ==
    \E pl \in Unpruned(blocks_to_place, EmptyGrid) \cap OptPlacements :
       opt_is_solved([TheBoard EXCEPT !.grid = WithPlacement(grid0, pl)]) = "True"

\* C25: when solve_lazor reports failure and the deadline has not elapsed,
\* no complete placement of the available blocks in the search's reach
\* covers all targets: the pruning check has cut no branch that leads to a
\* solution.
C25_PruningNeverFalseFailure ==
    (spc = "returned" /\ sresult = "None" /\ ~timed_out) => ~OptSolvable

=============================================================================
